---- MODULE Spec2Model ----
(***************************************************************************)
(* Model of pve-storage-info.py: size normalisation, disk-spec parsing,    *)
(* the storage-pool inventory arithmetic, the thread-pool collection of    *)
(* per-workload disks and the aggregation views printed by main().         *)
(*                                                                         *)
(* Python strings are modelled as sequences of one-character strings so    *)
(* that find/split/rfind/int() are computed as the code computes them.     *)
(***************************************************************************)
EXTENDS Integers, Sequences, FiniteSets, TLC

VARIABLES
    pc,            \* position of the program / of the function under study
    size_str,      \* argument of parse_size_to_mb
    size_mb,       \* its return value
    diskspec,      \* argument of extract_disk_info
    info,          \* its return value
    pools,         \* --list-storages: the (node, storage) pairs still to query
    st_status,     \* --list-storages: the last storage status fetched
    storage_rows,  \* --list-storages: the rows built so far
    vm_info,       \* the workloads /cluster/resources reports
    hung,          \* the workloads whose config fetch never returns
    vm_entries,    \* the workloads left by the --vmid/--node filters
    args,          \* the command-line arguments read so far
    workers,       \* max_workers of the ThreadPoolExecutor
    task,          \* the futures: one per submitted workload
    rows,          \* the merged disk records
    stdout,        \* the lines printed
    stderr,        \* the diagnostics written
    exit_code      \* None while running, Some(status) once main has ended

parserVars == <<size_str, size_mb, diskspec, info>>

storageVars == <<pools, st_status, storage_rows>>

poolVars == <<vm_info, hung, vm_entries, args, workers, task, rows>>

outVars == <<stdout, stderr, exit_code>>

vars == <<pc, parserVars, storageVars, poolVars, outVars>>

----------------------------------------------------------------------------
(* Python values *)

\* Python's None
None == [none |-> TRUE]

\* a non-None integer result
Some(n) == [val |-> n]

Digits == {"0", "1", "2", "3", "4", "5", "6", "7", "8", "9"}

DigitVal(c) ==
    CASE c = "0" -> 0 [] c = "1" -> 1 [] c = "2" -> 2 [] c = "3" -> 3
      [] c = "4" -> 4 [] c = "5" -> 5 [] c = "6" -> 6 [] c = "7" -> 7
      [] c = "8" -> 8 [] c = "9" -> 9

\* str.isdigit() of a one-character string
IsDigit(c) == c \in Digits

\* str.upper() of a one-character string
Upper(c) ==
    CASE c = "k" -> "K" [] c = "m" -> "M" [] c = "g" -> "G" [] c = "t" -> "T"
      [] c = "x" -> "X" [] c = "a" -> "A" [] OTHER -> c

\* s[i:] with a 0-based index, as Python slices
From(s, i) == SubSeq(s, i + 1, Len(s))

\* s[:i]
Upto(s, i) == SubSeq(s, 1, i)

\* c in s
Contains(s, c) == \E i \in 1..Len(s) : s[i] = c

\* s.find(c) for a one-character c: 0-based index of the first occurrence, -1 if none
Find(s, c) ==
    IF Contains(s, c)
    THEN (CHOOSE i \in 1..Len(s) : s[i] = c /\ \A j \in 1..(i - 1) : s[j] # c) - 1
    ELSE -1

\* s.split(c, 1)[0]
SplitHead(s, c) == IF Contains(s, c) THEN Upto(s, Find(s, c)) ELSE s

\* s.split(c, 1)[1], used only where c is in s
SplitTail(s, c) == From(s, Find(s, c) + 1)

\* s.rfind(sub): 0-based index of the last occurrence, -1 if none
RFind(s, sub) ==
    LET I == {i \in 0..(Len(s) - Len(sub)) : SubSeq(s, i + 1, i + Len(sub)) = sub}
    IN  IF I = {} THEN -1 ELSE CHOOSE i \in I : \A j \in I : j <= i

\* sub in s
ContainsSub(s, sub) == RFind(s, sub) # -1

\* s.startswith(p)
StartsWith(s, p) == Len(s) >= Len(p) /\ SubSeq(s, 1, Len(p)) = p

RECURSIVE LStrip(_)
LStrip(s) == IF s # <<>> /\ Head(s) = " " THEN LStrip(Tail(s)) ELSE s

RECURSIVE RStrip(_)
RStrip(s) == IF s # <<>> /\ s[Len(s)] = " " THEN RStrip(Upto(s, Len(s) - 1)) ELSE s

\* s.strip()
Strip(s) == RStrip(LStrip(s))

RECURSIVE DecVal(_)
\* value of a non-empty string of ASCII digits
DecVal(s) == IF Len(s) = 1 THEN DigitVal(s[1])
             ELSE 10 * DecVal(Upto(s, Len(s) - 1)) + DigitVal(s[Len(s)])

\* int(s): optional surrounding blanks, optional sign, digits with single
\* underscores between them; anything else raises ValueError (None here)
PyInt(s) ==
    LET t    == Strip(s)
        neg  == t # <<>> /\ Head(t) = "-"
        body == IF t # <<>> /\ Head(t) \in {"-", "+"} THEN Tail(t) ELSE t
        ok   == /\ body # <<>>
                /\ \A i \in 1..Len(body) : IsDigit(body[i]) \/ body[i] = "_"
                /\ IsDigit(body[1]) /\ IsDigit(body[Len(body)])
                /\ \A i \in 1..(Len(body) - 1) : ~(body[i] = "_" /\ body[i + 1] = "_")
        digs == SelectSeq(body, IsDigit)
    IN  IF ok THEN Some(IF neg THEN 0 - DecVal(digs) ELSE DecVal(digs)) ELSE None

----------------------------------------------------------------------------
(* parse_size_to_mb *)

\* parse_size_to_mb without the unit.upper() of line 66: lower-case unit
\* letters fall through to the final return
parse_size_to_mb_no_upper(s) ==
    IF s = <<>> THEN None
    ELSE LET unit    == s[Len(s)]
             num_str == Upto(s, Len(s) - 1)
         IN  IF IsDigit(unit) THEN PyInt(s)
             ELSE LET num_str2 == IF Contains(num_str, ".")
                                  THEN SplitHead(num_str, ".") ELSE num_str
                      num      == PyInt(num_str2)
                  IN  IF num = None THEN None
                      ELSE CASE unit = "K" -> Some(num.val \div 1024)
                             [] unit = "M" -> Some(num.val)
                             [] unit = "G" -> Some(num.val * 1024)
                             [] unit = "T" -> Some(num.val * 1024 * 1024)
                             [] OTHER      -> Some(num.val)

parse_size_to_mb(s) ==
    IF s = <<>> THEN None
    ELSE LET unit    == s[Len(s)]
             num_str == Upto(s, Len(s) - 1)
         IN  IF IsDigit(unit) THEN PyInt(s)
             ELSE LET num_str2 == IF Contains(num_str, ".")
                                  THEN SplitHead(num_str, ".") ELSE num_str
                      num      == PyInt(num_str2)
                      u        == Upper(unit)
                  IN  IF num = None THEN None
                      ELSE CASE u = "K" -> Some(num.val \div 1024)
                             [] u = "M" -> Some(num.val)
                             [] u = "G" -> Some(num.val * 1024)
                             [] u = "T" -> Some(num.val * 1024 * 1024)
                             [] OTHER   -> Some(num.val)

----------------------------------------------------------------------------
(* extract_disk_info *)

SizeMarker == <<"s", "i", "z", "e", "=">>

\* extract_disk_info without the early return of lines 124-125
extract_disk_info_no_colon_check(cluster_name, node, vmid, vmname, bus, spec) ==
    LET storage   == SplitHead(spec, ":")
        rest      == SplitTail(spec, ":")
        vmdisk    == SplitHead(rest, ",")
        pos       == RFind(spec, SizeMarker)
        size_part == From(spec, pos + 5)
        size      == Strip(IF Contains(size_part, ",")
                           THEN SplitHead(size_part, ",") ELSE size_part)
        mb        == parse_size_to_mb(size)
    IN  IF pos = -1 THEN None
        ELSE IF size = <<>> THEN None
        ELSE IF mb = None THEN None
        ELSE [cluster |-> cluster_name, node |-> node, vmid |-> vmid,
              vmname |-> vmname, storage |-> storage, vmdisk |-> vmdisk,
              size |-> size, size_mb |-> mb.val]

extract_disk_info(cluster_name, node, vmid, vmname, bus, spec) ==
    IF ~Contains(spec, ":") THEN None
    ELSE LET storage   == SplitHead(spec, ":")
             rest      == SplitTail(spec, ":")
             vmdisk    == SplitHead(rest, ",")
             pos       == RFind(spec, SizeMarker)
             size_part == From(spec, pos + 5)
             size      == Strip(IF Contains(size_part, ",")
                                THEN SplitHead(size_part, ",") ELSE size_part)
             mb        == parse_size_to_mb(size)
         IN  IF pos = -1 THEN None
             ELSE IF size = <<>> THEN None
             ELSE IF mb = None THEN None
             ELSE [cluster |-> cluster_name, node |-> node, vmid |-> vmid,
                   vmname |-> vmname, storage |-> storage, vmdisk |-> vmdisk,
                   size |-> size, size_mb |-> mb.val]

----------------------------------------------------------------------------
(* Sorting and printing *)

\* the characters of the model in code-point order
AsciiChars == <<" ", "+", ",", "-", ".", "0", "1", "2", "3", "4", "5", "6", "7",
                "8", "9", ":", "=", "A", "G", "K", "M", "T", "X", "_", "a", "b",
                "c", "d", "e", "f", "g", "h", "i", "k", "l", "m", "n", "o", "p",
                "q", "r", "s", "t", "u", "v", "w", "x", "y", "z">>

\* ord(c), up to an order-preserving renumbering
Ord(c) == CHOOSE i \in 1..Len(AsciiChars) : AsciiChars[i] = c

RECURSIVE StrLess(_, _)
\* a < b on str
StrLess(a, b) ==
    IF b = <<>> THEN FALSE
    ELSE IF a = <<>> THEN TRUE
    ELSE IF Head(a) # Head(b) THEN Ord(Head(a)) < Ord(Head(b))
    ELSE StrLess(Tail(a), Tail(b))

\* a sort key is a tuple whose components are [s |-> str] or [n |-> int]
ItemLess(x, y) == IF "n" \in DOMAIN x THEN x.n < y.n ELSE StrLess(x.s, y.s)

RECURSIVE KeyLess(_, _)
\* k1 < k2 on tuples of equal length
KeyLess(k1, k2) ==
    IF k1 = <<>> THEN FALSE
    ELSE IF Head(k1) # Head(k2) THEN ItemLess(Head(k1), Head(k2))
    ELSE KeyLess(Tail(k1), Tail(k2))

\* x inserted behind every element whose key is not greater: keeps list.sort stable
InsertByKey(sorted, x) ==
    LET n == Cardinality({i \in 1..Len(sorted) : ~KeyLess(x.key, sorted[i].key)})
    IN  SubSeq(sorted, 1, n) \o <<x>> \o SubSeq(sorted, n + 1, Len(sorted))

RECURSIVE SortPairs(_)
\* list.sort(key=...) on a sequence of [key, val] pairs
SortPairs(ps) ==
    IF ps = <<>> THEN <<>>
    ELSE InsertByKey(SortPairs(Upto(ps, Len(ps) - 1)), ps[Len(ps)])

Vals(ps) == [i \in 1..Len(ps) |-> ps[i].val]

HeaderLine(headers) == [kind |-> "header", cols |-> headers]

SepLine == [kind |-> "sep"]

RowLines(rs) == [i \in 1..Len(rs) |-> [kind |-> "row", row |-> rs[i]]]

\* print_table: header line, rule of dashes, one line per row; the cells are
\* kept as values, their padding is not modelled
print_table(headers, rs) == <<HeaderLine(headers), SepLine>> \o RowLines(rs)

\* print(json.dumps(rows, indent=2))
JsonDoc(rs) == <<[kind |-> "json", rows |-> rs]>>

\* the csv branch: optional header line, one line per row
print_csv(headers, rs, no_header) ==
    (IF no_header THEN <<>> ELSE <<HeaderLine(headers)>>) \o RowLines(rs)

\* the three output branches that end every view
Render(headers, rs, output, no_header) ==
    IF output = "json" THEN JsonDoc(rs)
    ELSE IF output = "csv" THEN print_csv(headers, rs, no_header)
    ELSE IF rs # <<>> \/ ~no_header THEN print_table(headers, rs)
    ELSE <<>>

Outputs == {"table", "csv", "json"}

StorageIdle == pools = <<>> /\ st_status = None /\ storage_rows = <<>>

OutIdle == stdout = <<>> /\ stderr = <<>> /\ exit_code = None

PoolIdle ==
    /\ vm_info = <<>> /\ hung = {} /\ vm_entries = <<>> /\ args = None
    /\ workers = 0 /\ task = <<>> /\ rows = <<>>

----------------------------------------------------------------------------
(* --list-storages *)

BytesPerMiB == 1024 * 1024

\* n/d rounded to the nearest integer, d > 0
RoundDiv(n, d) == (2 * n + d) \div (2 * d)

\* f"{x:.2f}" of the float x = num / den, as a count of hundredths (the
\* quotients of the model have no tie in the third decimal, so the float
\* rounds as the exact quotient does)
Format2(num, den) == RoundDiv(num * 100, den)

\* the row of lines 537-561 with available_% taken from the available
\* figure instead of 100 - used_%
StorageRowFromAvail(cluster_name, node_name, storage_id, st) ==
    LET total_mb == IF st.total # 0 THEN st.total \div BytesPerMiB ELSE 0
        used_mb  == IF st.used # 0 THEN st.used \div BytesPerMiB ELSE 0
        avail_mb == IF st.avail # 0 THEN st.avail \div BytesPerMiB ELSE 0
    IN  [cluster |-> cluster_name, node |-> node_name, storage |-> storage_id,
         total_MB |-> total_mb, used_MB |-> used_mb, available_MB |-> avail_mb,
         used_pct |-> IF total_mb > 0 THEN Format2(used_mb * 100, total_mb)
                      ELSE Format2(0, 1),
         available_pct |-> IF total_mb > 0 THEN Format2(avail_mb * 100, total_mb)
                           ELSE Format2(0, 1)]

\* the row of lines 537-561
StorageRow(cluster_name, node_name, storage_id, st) ==
    LET total_b  == st.total
        used_b   == st.used
        avail_b  == st.avail
        total_mb == IF total_b # 0 THEN total_b \div BytesPerMiB ELSE 0
        used_mb  == IF used_b # 0 THEN used_b \div BytesPerMiB ELSE 0
        avail_mb == IF avail_b # 0 THEN avail_b \div BytesPerMiB ELSE 0
    IN  [cluster |-> cluster_name, node |-> node_name, storage |-> storage_id,
         total_MB |-> total_mb, used_MB |-> used_mb, available_MB |-> avail_mb,
         used_pct |-> IF total_mb > 0 THEN Format2(used_mb * 100, total_mb)
                      ELSE Format2(0, 1),
         available_pct |-> IF total_mb > 0
                           THEN Format2(100 * total_mb - used_mb * 100, total_mb)
                           ELSE Format2(0, 1)]

\* largest storage size of the model, in MiB
MaxMiB == 2

ByteValues == {m * BytesPerMiB + r : m \in 0..MaxMiB, r \in {0, BytesPerMiB - 1}}

Statuses == [total : ByteValues, used : ByteValues,
             avail : {0, BytesPerMiB - 1, 2 * BytesPerMiB}]

PoolLists ==
    {<<>>,
     <<[node |-> <<"b">>, storage |-> <<"l">>]>>,
     <<[node |-> <<"b">>, storage |-> <<"l">>], [node |-> <<"a">>, storage |-> <<"l">>]>>,
     <<[node |-> <<"a">>, storage |-> <<"z">>], [node |-> <<"a">>, storage |-> <<"l">>]>>}

StorageHeaders == <<"cluster", "node", "storage", "type", "total_MB", "used_MB",
                    "available_MB", "used_%", "available_%">>

InitStorage ==
    /\ pc = "list_storages"
    /\ pools \in PoolLists
    /\ st_status = None
    /\ storage_rows = <<>>
    /\ size_str = <<>> /\ size_mb = None /\ diskspec = <<>> /\ info = None
    /\ PoolIdle
    /\ OutIdle

\* run_pvesh raises CalledProcessError: warning, continue (lines 530-534)
StorageStatusFails ==
    /\ pc = "list_storages"
    /\ pools # <<>>
    /\ stderr' = Append(stderr, [warning |-> "storage status", node |-> Head(pools).node,
                                  storage |-> Head(pools).storage])
    /\ pools' = Tail(pools)
    /\ UNCHANGED <<pc, parserVars, poolVars, st_status, storage_rows, stdout, exit_code>>

\* run_pvesh returns nothing: continue (lines 535-536)
StorageStatusEmpty ==
    /\ pc = "list_storages"
    /\ pools # <<>>
    /\ st_status' = None
    /\ pools' = Tail(pools)
    /\ UNCHANGED <<pc, parserVars, poolVars, storage_rows, outVars>>

\* run_pvesh returns a status: one row is appended (lines 537-561)
StorageStatusRow ==
    /\ pc = "list_storages"
    /\ pools # <<>>
    /\ \E st \in Statuses :
          /\ st_status' = st
          /\ storage_rows' = Append(storage_rows,
                 StorageRow(<<"c">>, Head(pools).node, Head(pools).storage, st))
    /\ pools' = Tail(pools)
    /\ UNCHANGED <<pc, parserVars, poolVars, outVars>>

\* lines 562-585: sort by (node, storage) and print
PrintStorages ==
    /\ pc = "list_storages"
    /\ pools = <<>>
    /\ LET sorted == Vals(SortPairs([i \in 1..Len(storage_rows) |->
                        [key |-> <<[s |-> storage_rows[i].node],
                                   [s |-> storage_rows[i].storage]>>,
                         val |-> storage_rows[i]]]))
       IN  /\ storage_rows' = sorted
           /\ \E output \in Outputs, no_header \in BOOLEAN :
                 stdout' = Render(StorageHeaders, sorted, output, no_header)
    /\ exit_code' = Some(0)
    /\ pc' = "exited"
    /\ UNCHANGED <<parserVars, poolVars, pools, st_status, stderr>>

NextStorage ==
    \/ StorageStatusFails
    \/ StorageStatusEmpty
    \/ StorageStatusRow
    \/ PrintStorages

SpecStorage == InitStorage /\ [][NextStorage]_vars

----------------------------------------------------------------------------
(* Inputs of the two parsers *)

\* longest integer part of a size token
MaxIntLen == 2

IntAlphabet == {"0", "1", "9", "-", "a"}

RECURSIVE StrsUpTo(_, _)
\* all strings over alphabet A of length at most n
StrsUpTo(A, n) ==
    IF n = 0 THEN {<<>>}
    ELSE LET S == StrsUpTo(A, n - 1)
         IN  S \cup {Append(s, c) : s \in S, c \in A}

FracParts == {<<>>, <<".">>, <<".", "9">>, <<".", "1", ".", "9">>}

UnitParts == {<<>>, <<"K">>, <<"k">>, <<"M">>, <<"m">>, <<"G">>, <<"g">>,
              <<"T">>, <<"t">>, <<"X">>, <<"x">>}

\* size tokens: integer part, optional fraction, optional unit letter
Tokens == {i \o f \o u : i \in StrsUpTo(IntAlphabet, MaxIntLen),
                         f \in FracParts, u \in UnitParts}

InitSize ==
    /\ pc = "parse_size_to_mb"
    /\ size_str \in Tokens
    /\ size_mb = None
    /\ diskspec = <<>>
    /\ info = None
    /\ StorageIdle
    /\ PoolIdle
    /\ OutIdle

ParseSize ==
    /\ pc = "parse_size_to_mb"
    /\ size_mb' = parse_size_to_mb(size_str)
    /\ pc' = "returned"
    /\ UNCHANGED <<size_str, diskspec, info, storageVars, poolVars, outVars>>

NextSize == ParseSize

SpecSize == InitSize /\ [][NextSize]_vars

\* size tokens embedded in disk specifications
DiskTokens == {i \o f \o u : i \in StrsUpTo(IntAlphabet, MaxIntLen),
                             f \in {<<>>, <<".", "9">>},
                             u \in {<<>>, <<"K">>, <<"G">>, <<"x">>}}

\* attribute prefixes that may precede the size token
SizeKeys == {<<",", "s", "i", "z", "e", "=">>,
             <<",", "n", "o", "s", "i", "z", "e", "=">>,
             <<",", "s", "i", "z", "e", "=", " ">>}

\* disk specifications: [storage][:][volume][,key=token][,more]
DiskSpecs ==
    LET Heads == {st \o co \o vo : st \in {<<>>, <<"p">>},
                                    co \in {<<>>, <<":">>},
                                    vo \in {<<>>, <<"v">>}}
        Attrs == {<<>>} \cup {k \o t : k \in SizeKeys, t \in DiskTokens}
        Tails == {<<>>, <<",", "d", "=", "1">>}
    IN  {h \o a \o t : h \in Heads, a \in Attrs, t \in Tails}

InitDisk ==
    /\ pc = "extract_disk_info"
    /\ diskspec \in DiskSpecs
    /\ info = None
    /\ size_str = <<>>
    /\ size_mb = None
    /\ StorageIdle
    /\ PoolIdle
    /\ OutIdle

ExtractDiskInfo ==
    /\ pc = "extract_disk_info"
    /\ info' = extract_disk_info(<<"c">>, <<"n">>, <<"9">>, <<"w">>, <<"scsi0">>, diskspec)
    /\ pc' = "returned"
    /\ UNCHANGED <<size_str, size_mb, diskspec, storageVars, poolVars, outVars>>

NextDisk == ExtractDiskInfo

SpecDisk == InitDisk /\ [][NextDisk]_vars

----------------------------------------------------------------------------
(* fetch_vm_disks *)

\* IsCandidate without the media=cdrom test of lines 192-193
IsCandidateWithCdrom(vtype, key, value_str) ==
    IF vtype = "qemu"
    THEN \/ StartsWith(key, <<"s", "c", "s", "i">>)
         \/ StartsWith(key, <<"i", "d", "e">>)
         \/ StartsWith(key, <<"v", "i", "r", "t", "i", "o">>)
    ELSE IF vtype = "lxc"
    THEN key = <<"r", "o", "o", "t", "f", "s">> \/ StartsWith(key, <<"m", "p">>)
    ELSE TRUE

\* the entries of a configuration that are candidate disk fields (lines 185-196)
IsCandidate(vtype, key, value_str) ==
    IF vtype = "qemu"
    THEN /\ \/ StartsWith(key, <<"s", "c", "s", "i">>)
            \/ StartsWith(key, <<"i", "d", "e">>)
            \/ StartsWith(key, <<"v", "i", "r", "t", "i", "o">>)
         /\ ~ContainsSub(value_str, <<"m", "e", "d", "i", "a", "=", "c", "d", "r", "o", "m">>)
    ELSE IF vtype = "lxc"
    THEN key = <<"r", "o", "o", "t", "f", "s">> \/ StartsWith(key, <<"m", "p">>)
    ELSE TRUE

RECURSIVE ConfigRows(_, _, _)
\* the loop of lines 182-200 over cfg.items()
ConfigRows(cluster_name, vm_entry, cfg) ==
    IF cfg = <<>> THEN <<>>
    ELSE LET e    == Head(cfg)
             rest == ConfigRows(cluster_name, vm_entry, Tail(cfg))
             inf  == extract_disk_info(cluster_name, vm_entry.node, vm_entry.vmid,
                                       vm_entry.vmname, e.key, e.value)
         IN  IF ~IsCandidate(vm_entry.type, e.key, e.value) THEN rest
             ELSE IF inf = None THEN rest
             ELSE <<inf>> \o rest

WarningLine(vm_entry) ==
    [text |-> "Warning: cannot get config", type |-> vm_entry.type,
     vmid |-> vm_entry.vmid, node |-> vm_entry.node]

\* fetch_vm_disks on the response run_pvesh gives: the rows returned, the
\* warning written to stderr, or the exception that escapes the function
fetch_vm_disks(cluster_name, vm_entry, response) ==
    IF vm_entry.type \notin {"qemu", "lxc"}
    THEN [raised |-> FALSE, rows |-> <<>>, warning |-> <<>>]
    ELSE IF response.kind = "CalledProcessError"
    THEN [raised |-> FALSE, rows |-> <<>>, warning |-> <<WarningLine(vm_entry)>>]
    ELSE IF response.kind = "Exception"
    THEN [raised |-> TRUE, rows |-> <<>>, warning |-> <<>>]
    ELSE IF response.cfg = <<>>
    THEN [raised |-> FALSE, rows |-> <<>>, warning |-> <<>>]
    ELSE [raised |-> FALSE, rows |-> ConfigRows(cluster_name, vm_entry, response.cfg),
          warning |-> <<>>]

----------------------------------------------------------------------------
(* The aggregation views of main() *)

RECURSIVE SetToSeq(_)
\* the elements of a finite set of integers in increasing order
SetToSeq(S) ==
    IF S = {} THEN <<>>
    ELSE LET m == CHOOSE x \in S : \A y \in S : x <= y
         IN  <<m>> \o SetToSeq(S \ {m})

\* dict insertion order: the positions at which a key occurs first
FirstSeen(keys) ==
    SetToSeq({i \in 1..Len(keys) : \A j \in 1..(i - 1) : keys[j] # keys[i]})

RECURSIVE SumSizes(_)
SumSizes(rs) == IF rs = <<>> THEN 0 ELSE Head(rs).size_mb + SumSizes(Tail(rs))

\* int(r["vmid"])
VmidInt(r) == PyInt(r.vmid).val

\* lines 640-660: totals per (node, vmid, vmname, storage)
vm_per_storage(rs) ==
    LET keys   == [i \in 1..Len(rs) |-> <<rs[i].node, rs[i].vmid, rs[i].vmname, rs[i].storage>>]
        first  == FirstSeen(keys)
        result == [k \in 1..Len(first) |->
                     LET key  == keys[first[k]]
                         same == SelectSeq(rs, LAMBDA r :
                                   <<r.node, r.vmid, r.vmname, r.storage>> = key)
                     IN  [cluster |-> same[Len(same)].cluster, node |-> key[1],
                          vmid |-> key[2], vmname |-> same[Len(same)].vmname,
                          storage |-> key[4], size_MB |-> SumSizes(same)]]
    IN  Vals(SortPairs([k \in 1..Len(result) |->
            [key |-> <<[s |-> result[k].node], [n |-> VmidInt(result[k])],
                       [s |-> result[k].storage]>>,
             val |-> result[k]]]))

\* total_per_vm that overwrites cluster, node and name with every record of
\* the vmid, so that the last record's values are kept
total_per_vm_last_seen(rs) ==
    LET keys   == [i \in 1..Len(rs) |-> rs[i].vmid]
        first  == FirstSeen(keys)
        result == [k \in 1..Len(first) |->
                     LET same == SelectSeq(rs, LAMBDA r : r.vmid = keys[first[k]])
                         r1   == same[Len(same)]
                     IN  [cluster |-> r1.cluster, node |-> r1.node, vmid |-> r1.vmid,
                          vmname |-> r1.vmname, total_size_MB |-> SumSizes(same)]]
    IN  Vals(SortPairs([k \in 1..Len(result) |->
            [key |-> <<[s |-> result[k].node], [n |-> VmidInt(result[k])]>>,
             val |-> result[k]]]))

\* total_per_vm without the final sort: the rows stay in dict insertion order
total_per_vm_unsorted(rs) ==
    LET keys   == [i \in 1..Len(rs) |-> rs[i].vmid]
        first  == FirstSeen(keys)
    IN  [k \in 1..Len(first) |->
            LET r0   == rs[first[k]]
                same == SelectSeq(rs, LAMBDA r : r.vmid = r0.vmid)
            IN  [cluster |-> r0.cluster, node |-> r0.node, vmid |-> r0.vmid,
                 vmname |-> r0.vmname, total_size_MB |-> SumSizes(same)]]

\* lines 675-696: totals per vmid, the first record's cluster, node and name
total_per_vm(rs) ==
    LET keys   == [i \in 1..Len(rs) |-> rs[i].vmid]
        first  == FirstSeen(keys)
        result == [k \in 1..Len(first) |->
                     LET r0   == rs[first[k]]
                         same == SelectSeq(rs, LAMBDA r : r.vmid = r0.vmid)
                     IN  [cluster |-> r0.cluster, node |-> r0.node, vmid |-> r0.vmid,
                          vmname |-> r0.vmname, total_size_MB |-> SumSizes(same)]]
    IN  Vals(SortPairs([k \in 1..Len(result) |->
            [key |-> <<[s |-> result[k].node], [n |-> VmidInt(result[k])]>>,
             val |-> result[k]]]))

\* lines 711-722: totals per node
total_per_node(cluster_name, rs) ==
    LET keys   == [i \in 1..Len(rs) |-> rs[i].node]
        first  == FirstSeen(keys)
        result == [k \in 1..Len(first) |->
                     LET node == keys[first[k]]
                         same == SelectSeq(rs, LAMBDA r : r.node = node)
                     IN  [cluster |-> cluster_name, node |-> node,
                          total_size_MB |-> SumSizes(same)]]
    IN  Vals(SortPairs([k \in 1..Len(result) |->
            [key |-> <<[s |-> result[k].node]>>, val |-> result[k]]]))

\* sorted_rows with the vmid compared as text: the key lacks the int() of line 737
sorted_rows_lexicographic(rs) ==
    Vals(SortPairs([k \in 1..Len(rs) |->
        [key |-> <<[s |-> rs[k].node], [s |-> rs[k].vmid],
                   [s |-> rs[k].storage], [s |-> rs[k].vmdisk]>>,
         val |-> rs[k]]]))

\* lines 736-738: rows.sort by (node, int(vmid), storage, vmdisk)
sorted_rows(rs) ==
    Vals(SortPairs([k \in 1..Len(rs) |->
        [key |-> <<[s |-> rs[k].node], [n |-> VmidInt(rs[k])],
                   [s |-> rs[k].storage], [s |-> rs[k].vmdisk]>>,
         val |-> rs[k]]]))

VmStorageHeaders == <<"cluster", "node", "vmid", "vmname", "storage", "size_MB">>

VmHeaders == <<"cluster", "node", "vmid", "vmname", "total_size_MB">>

NodeHeaders == <<"cluster", "node", "total_size_MB">>

DiskHeaders == <<"cluster", "node", "vmid", "vmname", "storage", "vmdisk", "size", "size_mb">>

\* the header line 613 prints when there is no workload
EmptyDiskHeaders == <<"cluster", "node", "vmid", "vmname", "storage", "vmdisk", "size", "size_MB">>

----------------------------------------------------------------------------
(* main(): inventory, thread pool, output *)

ClusterName == <<"c">>

DigitChar(d) == CHOOSE c \in Digits : DigitVal(c) = d

RECURSIVE IntToStr(_)
\* str(n) of a non-negative int
IntToStr(n) == IF n < 10 THEN <<DigitChar(n)>>
               ELSE Append(IntToStr(n \div 10), DigitChar(n % 10))

\* the workloads /cluster/resources may report; vmid 9 is reported on two nodes
Catalogue ==
    <<[vmid |-> 9,  node |-> <<"a">>, name |-> <<"w">>, type |-> "qemu"],
      [vmid |-> 10, node |-> <<"a">>, name |-> <<"x">>, type |-> "lxc"],
      [vmid |-> 9,  node |-> <<"b">>, name |-> <<"w">>, type |-> "qemu"],
      [vmid |-> 7,  node |-> <<"b">>, name |-> <<"y">>, type |-> "openvz"]>>

\* the configuration the cluster holds for each workload
ExternalConfig(vm_entry) ==
    IF vm_entry.type = "lxc" THEN
      <<[key |-> <<"r", "o", "o", "t", "f", "s">>,
      value |-> <<"p", ":", "r", ",", "s", "i", "z", "e", "=", "1", "G">>],
        [key |-> <<"m", "p", "0">>,
      value |-> <<"q", ":", "m", ",", "s", "i", "z", "e", "=", "3", "M">>],
        [key |-> <<"s", "c", "s", "i", "0">>,
      value |-> <<"p", ":", "z", ",", "s", "i", "z", "e", "=", "1", "G">>]>>
    ELSE IF vm_entry.node = <<"a">> THEN
      <<[key |-> <<"s", "c", "s", "i", "0">>,
      value |-> <<"p", ":", "v", ",", "s", "i", "z", "e", "=", "1", "G">>],
        [key |-> <<"i", "d", "e", "2">>,
      value |-> <<"p", ":", "c", ",", "m", "e", "d", "i", "a", "=", "c", "d", "r", "o", "m", ",", "s", "i", "z", "e", "=", "1", "G">>],
        [key |-> <<"n", "e", "t", "0">>,
      value |-> <<"e", ":", "f", ",", "s", "i", "z", "e", "=", "1", "G">>],
        [key |-> <<"s", "c", "s", "i", "1">>,
      value |-> <<"q", ":", "v", ",", "s", "i", "z", "e", "=", "2">>]>>
    ELSE
      <<[key |-> <<"v", "i", "r", "t", "i", "o", "0">>,
      value |-> <<"p", ":", "v", ",", "s", "i", "z", "e", "=", "3", "G">>],
        [key |-> <<"s", "c", "s", "i", "0">>,
      value |-> <<"p", ":", "x">>]>>

\* what run_pvesh may do for one config fetch (lines 37-47); fetch_vm_disks
\* calls it for qemu and lxc workloads only
Responses(vm_entry) ==
    IF vm_entry.type \notin {"qemu", "lxc"}
    THEN {[kind |-> "not called", cfg |-> <<>>]}
    ELSE {[kind |-> "json", cfg |-> ExternalConfig(vm_entry)],
          [kind |-> "json", cfg |-> <<>>],
          [kind |-> "CalledProcessError", cfg |-> <<>>],
          [kind |-> "Exception", cfg |-> <<>>]}

\* most workloads in one inventory
MaxVMs == 3

DefaultWorkers == 8

\* an inventory with one workload more than the default pool size; its
\* workloads are of a type fetch_vm_disks does not query
BigInventory ==
    [k \in 1..(DefaultWorkers + 1) |->
        [vmid |-> 100 + k, node |-> <<"a">>, name |-> <<"z">>, type |-> "openvz"]]

Inventories ==
    {[k \in 1..Cardinality(S) |-> Catalogue[SetToSeq(S)[k]]] :
        S \in {X \in SUBSET (1..Len(Catalogue)) : Cardinality(X) <= MaxVMs}}
    \cup {BigInventory}

\* largest --workers value tried
MaxWorkersArg == 2

WorkerArgs == {None} \cup {Some(n) : n \in 0..MaxWorkersArg}

VmidFilters == {{}, {<<"9">>}}

NodeFilters == {{}, {<<"a">>}}

ViewArgs == [output : Outputs, no_header : BOOLEAN, vm_per_storage : BOOLEAN,
             total_per_vm : BOOLEAN, total_per_node : BOOLEAN]

Min(a, b) == IF a < b THEN a ELSE b

\* lines 620-623
Degree(workers_arg, n) ==
    IF workers_arg # None /\ workers_arg.val # 0 /\ workers_arg.val > 0
    THEN workers_arg.val
    ELSE Min(DefaultWorkers, n)

Queued == {i \in 1..Len(task) : task[i].state = "queued"}

Running == {i \in 1..Len(task) : task[i].state = "running"}

\* the identity under which a workload may hang
HangKey(vm_entry) == <<vm_entry.vmid, vm_entry.node>>

Init ==
    /\ pc = "start"
    /\ vm_info \in Inventories
    /\ hung = {}
    /\ vm_entries = <<>> /\ args = None /\ workers = 0 /\ task = <<>> /\ rows = <<>>
    /\ size_str = <<>> /\ size_mb = None /\ diskspec = <<>> /\ info = None
    /\ StorageIdle
    /\ OutIdle

\* lines 586-606: the --vmid / --node filters
BuildEntries ==
    /\ pc = "start"
    /\ \E vmid_filter \in VmidFilters, node_filter \in NodeFilters :
         LET keep(vm) == /\ (vmid_filter = {} \/ IntToStr(vm.vmid) \in vmid_filter)
                         /\ (node_filter = {} \/ vm.node \in node_filter)
             kept     == SelectSeq(vm_info, keep)
         IN  /\ vm_entries' = [i \in 1..Len(kept) |->
                                 [vmid |-> IntToStr(kept[i].vmid), node |-> kept[i].node,
                                  vmname |-> kept[i].name, type |-> kept[i].type]]
             /\ pc' = IF kept = <<>> THEN "empty" ELSE "submit"
    /\ UNCHANGED <<parserVars, storageVars, vm_info, hung, args, workers, task, rows, outVars>>

\* lines 607-619: nothing to collect
EmptyExit ==
    /\ pc = "empty"
    /\ \E a \in ViewArgs :
         /\ args' = a
         /\ stdout' = IF /\ a.output = "csv"
                         /\ ~(a.total_per_vm \/ a.total_per_node \/ a.vm_per_storage)
                         /\ ~a.no_header
                      THEN <<HeaderLine(EmptyDiskHeaders)>>
                      ELSE <<>>
    /\ exit_code' = Some(0)
    /\ pc' = "exited"
    /\ UNCHANGED <<parserVars, storageVars, vm_info, hung, vm_entries, workers, task, rows, stderr>>

\* lines 620-629: the pool is created and one future is submitted per workload
SubmitAll ==
    /\ pc = "submit"
    /\ \E w \in WorkerArgs :
         /\ args' = [workers |-> w]
         /\ workers' = Degree(w, Len(vm_entries))
    /\ task' = [i \in 1..Len(vm_entries) |->
                  [vm |-> vm_entries[i], state |-> "queued",
                   response |-> [kind |-> "none", cfg |-> <<>>],
                   raised |-> FALSE, result |-> <<>>]]
    /\ pc' = "collect"
    /\ UNCHANGED <<parserVars, storageVars, vm_info, hung, vm_entries, rows, outVars>>

\* StartTask with one thread per submitted workload, whatever max_workers is
StartTaskUnbounded(i) ==
    /\ pc = "collect"
    /\ i \in Queued
    /\ \A j \in Queued : i <= j
    /\ task' = [task EXCEPT ![i].state = "running"]
    /\ UNCHANGED <<pc, parserVars, storageVars, vm_info, hung, vm_entries, args, workers, rows, outVars>>

\* the oldest queued work item can be taken: a worker thread is free
CanStart(i) ==
    /\ pc = "collect"
    /\ i \in Queued
    /\ \A j \in Queued : i <= j
    /\ Cardinality(Running) < workers

\* a free worker thread takes the oldest queued work item and calls fetch_vm_disks
StartTask(i) ==
    /\ CanStart(i)
    /\ task' = [task EXCEPT ![i].state = "running"]
    /\ UNCHANGED <<pc, parserVars, storageVars, vm_info, hung, vm_entries, args, workers, rows, outVars>>

\* the call of fetch_vm_disks made for task i can end
CanFinish(i) ==
    /\ pc = "collect"
    /\ i \in Running
    /\ HangKey(task[i].vm) \notin hung

\* fetch_vm_disks returns or raises in its worker thread (lines 154-200)
FinishTask(i) ==
    /\ CanFinish(i)
    /\ \E response \in Responses(task[i].vm) :
         LET r == fetch_vm_disks(ClusterName, task[i].vm, response)
         IN  /\ task' = [task EXCEPT ![i].state = "finished",
                                     ![i].response = response,
                                     ![i].raised = r.raised,
                                     ![i].result = r.rows]
             /\ stderr' = stderr \o r.warning
    /\ UNCHANGED <<pc, parserVars, storageVars, vm_info, hung, vm_entries, args, workers, rows, stdout, exit_code>>

ErrorLine(vm_entry) ==
    [text |-> "Error processing", type |-> vm_entry.type,
     vmid |-> vm_entry.vmid, node |-> vm_entry.node]

\* Collect with an except clause that also discards the rows merged so far
CollectDiscardsOnError(i) ==
    /\ pc = "collect"
    /\ i \in 1..Len(task)
    /\ task[i].state = "finished"
    /\ task' = [task EXCEPT ![i].state = "collected"]
    /\ IF task[i].raised
       THEN /\ stderr' = Append(stderr, ErrorLine(task[i].vm))
            /\ rows' = <<>>
       ELSE /\ rows' = rows \o task[i].result
            /\ stderr' = stderr
    /\ UNCHANGED <<pc, parserVars, storageVars, vm_info, hung, vm_entries, args, workers, stdout, exit_code>>

\* as_completed can yield future i
CanCollect(i) ==
    /\ pc = "collect"
    /\ i \in 1..Len(task)
    /\ task[i].state = "finished"

\* one iteration of the as_completed loop in the main thread (lines 630-638)
Collect(i) ==
    /\ CanCollect(i)
    /\ task' = [task EXCEPT ![i].state = "collected"]
    /\ IF task[i].raised
       THEN /\ stderr' = Append(stderr, ErrorLine(task[i].vm))
            /\ rows' = rows
       ELSE /\ rows' = rows \o task[i].result
            /\ stderr' = stderr
    /\ UNCHANGED <<pc, parserVars, storageVars, vm_info, hung, vm_entries, args, workers, stdout, exit_code>>

\* LeavePool that goes on as soon as no finished future is left to collect,
\* without waiting for the futures still queued or running
LeavePoolEarly ==
    /\ pc = "collect"
    /\ \A i \in 1..Len(task) : task[i].state # "finished"
    /\ \E i \in 1..Len(task) : task[i].state = "collected"
    /\ pc' = "views"
    /\ UNCHANGED <<parserVars, storageVars, poolVars, outVars>>

\* every future has been yielded by as_completed
CanLeave ==
    /\ pc = "collect"
    /\ \A i \in 1..Len(task) : task[i].state = "collected"

\* as_completed is exhausted and the with-block has shut the pool down
LeavePool ==
    /\ CanLeave
    /\ pc' = "views"
    /\ UNCHANGED <<parserVars, storageVars, poolVars, outVars>>

\* lines 639-759: the view the arguments select is computed and printed
Output ==
    /\ pc = "views"
    /\ \E a \in ViewArgs :
         /\ args' = [workers |-> args.workers, output |-> a.output,
                     no_header |-> a.no_header, vm_per_storage |-> a.vm_per_storage,
                     total_per_vm |-> a.total_per_vm, total_per_node |-> a.total_per_node]
         /\ IF a.vm_per_storage
            THEN /\ stdout' = Render(VmStorageHeaders, vm_per_storage(rows), a.output, a.no_header)
                 /\ rows' = rows
            ELSE IF a.total_per_vm
            THEN /\ stdout' = Render(VmHeaders, total_per_vm(rows), a.output, a.no_header)
                 /\ rows' = rows
            ELSE IF a.total_per_node
            THEN /\ stdout' = Render(NodeHeaders, total_per_node(ClusterName, rows),
                                     a.output, a.no_header)
                 /\ rows' = rows
            ELSE /\ rows' = sorted_rows(rows)
                 /\ stdout' = Render(DiskHeaders, sorted_rows(rows), a.output, a.no_header)
    /\ exit_code' = Some(0)
    /\ pc' = "exited"
    /\ UNCHANGED <<parserVars, storageVars, vm_info, hung, vm_entries, workers, task, stderr>>

Next ==
    \/ BuildEntries
    \/ EmptyExit
    \/ SubmitAll
    \/ \E i \in 1..Len(task) : StartTask(i)
    \/ \E i \in 1..Len(task) : FinishTask(i)
    \/ \E i \in 1..Len(task) : Collect(i)
    \/ LeavePool
    \/ Output

Spec == Init /\ [][Next]_vars

\* most config fetches that never return
MaxHung == 1

\* the workloads of an inventory whose collection calls run_pvesh
Fetched(inventory) ==
    {[vmid |-> IntToStr(inventory[k].vmid), node |-> inventory[k].node] :
        k \in {j \in 1..Len(inventory) : inventory[j].type \in {"qemu", "lxc"}}}

\* as Init, but up to MaxHung config fetches hang (run_pvesh sets no timeout)
InitHang ==
    /\ pc = "start"
    /\ vm_info \in Inventories
    /\ hung \in {H \in SUBSET {HangKey(v) : v \in Fetched(vm_info)} :
                    Cardinality(H) <= MaxHung}
    /\ vm_entries = <<>> /\ args = None /\ workers = 0 /\ task = <<>> /\ rows = <<>>
    /\ size_str = <<>> /\ size_mb = None /\ diskspec = <<>> /\ info = None
    /\ StorageIdle
    /\ OutIdle

\* every thread that can take a step eventually takes one
FairSpec == InitHang /\ [][Next]_vars /\ WF_vars(Next)

----------------------------------------------------------------------------
(* One call of fetch_vm_disks on any configuration *)

\* longest configuration handed to one call of fetch_vm_disks
MaxCfgLen == 2

ConfigKeys == {<<"s", "c", "s", "i", "0">>, <<"i", "d", "e", "2">>, <<"v", "i", "r", "t", "i", "o", "0">>, <<"s", "a", "t", "a", "0">>, <<"r", "o", "o", "t", "f", "s">>, <<"r", "o", "o", "t", "f", "s", "2">>, <<"m", "p", "0">>}

ConfigValues == {<<"p", ":", "v", ",", "s", "i", "z", "e", "=", "1", "G">>,
                 <<"p", ":", "c", ",", "m", "e", "d", "i", "a", "=", "c", "d", "r", "o", "m", ",", "s", "i", "z", "e", "=", "1", "G">>,
                 <<"p", ":", "v">>,
                 <<"p", ":", "v", ",", "s", "i", "z", "e", "=", "x">>}

RECURSIVE ConfigsUpTo(_)
\* the configurations (dicts in item order: keys are distinct) of at most n entries
ConfigsUpTo(n) ==
    IF n = 0 THEN {<<>>}
    ELSE LET S == ConfigsUpTo(n - 1)
         IN  S \cup {Append(c, [key |-> k, value |-> v]) :
                        c \in {d \in S : Len(d) = n - 1},
                        k \in ConfigKeys, v \in ConfigValues}

DistinctKeys(cfg) == \A i, j \in 1..Len(cfg) : i # j => cfg[i].key # cfg[j].key

Configs == {c \in ConfigsUpTo(MaxCfgLen) : DistinctKeys(c)}

VmTypes == {"qemu", "lxc", "openvz"}

\* what run_pvesh returns to one call of fetch_vm_disks for a workload of a type
FetchResponses(vtype) ==
    IF vtype \notin {"qemu", "lxc"}
    THEN {[kind |-> "not called", cfg |-> <<>>]}
    ELSE {[kind |-> "json", cfg |-> c] : c \in Configs}

\* one call of fetch_vm_disks in a worker thread, run_pvesh's answer fixed
InitFetch ==
    /\ pc = "fetch_vm_disks"
    /\ \E vtype \in VmTypes :
         /\ vm_entries = <<[vmid |-> <<"9">>, node |-> <<"a">>, vmname |-> <<"w">>,
                            type |-> vtype]>>
         /\ \E response \in FetchResponses(vtype) :
              task = <<[vm |-> vm_entries[1], state |-> "running", response |-> response,
                        raised |-> FALSE, result |-> <<>>]>>
    /\ vm_info = <<>> /\ hung = {} /\ args = None /\ workers = 1 /\ rows = <<>>
    /\ size_str = <<>> /\ size_mb = None /\ diskspec = <<>> /\ info = None
    /\ StorageIdle
    /\ OutIdle

FetchVmDisks ==
    /\ pc = "fetch_vm_disks"
    /\ LET r == fetch_vm_disks(ClusterName, task[1].vm, task[1].response)
       IN  /\ task' = [task EXCEPT ![1].state = "finished",
                                   ![1].raised = r.raised,
                                   ![1].result = r.rows]
           /\ stderr' = stderr \o r.warning
    /\ pc' = "returned"
    /\ UNCHANGED <<parserVars, storageVars, vm_info, hung, vm_entries, args, workers, rows,
                   stdout, exit_code>>

NextFetch == FetchVmDisks

SpecFetch == InitFetch /\ [][NextFetch]_vars

----------------------------------------------------------------------------
(* Claims about the orchestrator and the views *)

Range(f) == {f[k] : k \in DOMAIN f}

Count(f, x) == Cardinality({k \in DOMAIN f : f[k] = x})

\* the workloads whose collection failed: the external call failed or an
\* exception was raised in the task
Failed == {i \in 1..Len(task) : task[i].response.kind \in {"CalledProcessError", "Exception"}}

\* the disk records of a workload, from the configuration the cluster returned
RecordsOf(i) ==
    IF task[i].response.kind = "json"
    THEN ConfigRows(ClusterName, vm_entries[i], task[i].response.cfg)
    ELSE <<>>

RECURSIVE RecordsOfAll(_)
\* the records of the workloads 1..n that did not fail
RecordsOfAll(n) ==
    IF n = 0 THEN <<>>
    ELSE RecordsOfAll(n - 1) \o (IF n \in Failed THEN <<>> ELSE RecordsOf(n))

\* the diagnostics that name a workload
ReportsOf(vm_entry) ==
    {k \in 1..Len(stderr) : stderr[k].vmid = vm_entry.vmid /\ stderr[k].node = vm_entry.node}

\* C1: when the pool is left, the merged rows are exactly (as a multiset) the
\* records of the workloads that did not fail, each failing workload is
\* reported once and nothing else is, and every submitted task has run
C1_FailureIsolation ==
    pc = "views" =>
        /\ \A r \in Range(rows) \cup Range(RecordsOfAll(Len(task))) :
              Count(rows, r) = Count(RecordsOfAll(Len(task)), r)
        /\ Len(stderr) = Cardinality(Failed)
        /\ \A i \in 1..Len(task) :
              Cardinality(ReportsOf(task[i].vm)) = IF i \in Failed THEN 1 ELSE 0
        /\ Len(task) = Len(vm_entries)
        /\ \A i \in 1..Len(task) : task[i].state = "collected"

\* three workloads were collected: one raised, one's external call failed,
\* and the records of the third are the merged rows
C1_Witness ==
    /\ pc = "views"
    /\ Len(task) = 3
    /\ \E i, j \in 1..3 : /\ task[i].response.kind = "Exception"
                          /\ task[j].response.kind = "CalledProcessError"
    /\ Len(stderr) = 2
    /\ rows # <<>>

\* totals of the per-VM rows that sit on node n
RECURSIVE SumTotals(_)
SumTotals(rs) == IF rs = <<>> THEN 0 ELSE Head(rs).total_size_MB + SumTotals(Tail(rs))

\* C2: for every node N of the per-node view, its total is the sum of the
\* totals of the per-VM rows whose node is N
C2_NodeTotalsMatchVmTotals ==
    pc = "views" =>
        \A k \in 1..Len(total_per_node(ClusterName, rows)) :
            LET nrow == total_per_node(ClusterName, rows)[k]
            IN  nrow.total_size_MB =
                  SumTotals(SelectSeq(total_per_vm(rows), LAMBDA v : v.node = nrow.node))

\* the lines of stdout of a kind
LinesOf(kind) == {k \in 1..Len(stdout) : stdout[k].kind = kind}

\* C4: with no workload left after filtering, Table and Delimited output of
\* every view prints the header (Table: and the rule) unless --no-header is
\* given, prints no data row, and the exit status is 0
C4_EmptyInventoryHeaders ==
    (pc = "exited" /\ vm_entries = <<>>) =>
        /\ exit_code = Some(0)
        /\ LinesOf("row") = {}
        /\ (args.output \in {"table", "csv"} /\ ~args.no_header) => LinesOf("header") # {}
        /\ (args.output = "table" /\ ~args.no_header) => LinesOf("sep") # {}

\* the degree of parallelism the specification states
StatedDegree == IF args.workers # None /\ args.workers.val > 0
                THEN args.workers.val
                ELSE IF Len(vm_entries) < 8 THEN Len(vm_entries) ELSE 8

\* C9: max_workers is --workers when given and positive, else
\* min(8, number of workloads); never more tasks than that run at once; and
\* the i-th future is bound to the i-th workload
C9_BoundedParallelism ==
    task # <<>> =>
        /\ workers = StatedDegree
        /\ Cardinality(Running) <= workers
        /\ Len(task) = Len(vm_entries)
        /\ \A i \in 1..Len(task) : task[i].vm = vm_entries[i]

\* the default pool of 8 is full and a ninth workload waits in the queue
C9_Witness ==
    /\ pc = "collect"
    /\ args.workers = None
    /\ workers = 8
    /\ Cardinality(Running) = 8
    /\ Queued # {}

\* the submitted workloads whose fetch never returns
HungSubmitted == {i \in 1..Len(task) : HangKey(task[i].vm) \in hung}

OthersCollected ==
    \A i \in 1..Len(task) : i \notin HungSubmitted => task[i].state = "collected"

StateRank(st) ==
    CASE st = "queued" -> 0 [] st = "running" -> 1 [] st = "finished" -> 2
      [] st = "collected" -> 3

\* the views are computed only after every submitted task was collected
C10_OnlyAfterAll ==
    [](pc \in {"views", "exited"} => \A i \in 1..Len(task) : task[i].state = "collected")

\* a task only moves forward, one stage at a time: it runs once and is
\* collected once
C10_NeverRetried ==
    [][\A i \in 1..Len(task) :
          /\ Len(task') = Len(task)
          /\ StateRank(task'[i].state) \in {StateRank(task[i].state),
                                             StateRank(task[i].state) + 1}
          /\ (task[i].state \in {"finished", "collected"} =>
                task'[i].result = task[i].result)]_vars

\* no thread can take a step: main has ended, or it waits for a fetch that
\* never returns
Quiescent ==
    /\ pc \in {"collect", "exited"}
    /\ ~CanLeave
    /\ \A i \in 1..Len(task) : ~CanStart(i) /\ ~CanFinish(i) /\ ~CanCollect(i)

\* the work done so far: every step of the program adds to it, and it is
\* bounded, so under FairSpec every behaviour reaches a state where no step
\* is possible
PcRank ==
    CASE pc = "start" -> 0 [] pc \in {"empty", "submit"} -> 1 [] pc = "collect" -> 2
      [] pc = "views" -> 3 [] pc = "exited" -> 4

RECURSIVE TaskRanks(_)
TaskRanks(ts) == IF ts = <<>> THEN 0 ELSE StateRank(Head(ts).state) + TaskRanks(Tail(ts))

Progress == PcRank + TaskRanks(task)

C10_Advances == [][~Quiescent /\ Progress' > Progress]_vars

\* if every fetch returns, main ends
C10_Completes == [](Quiescent /\ HungSubmitted = {} => pc = "exited")

\* while a submitted fetch hangs, the pool is never left
C10_NoPartialResult == [](HungSubmitted # {} => pc = "collect")

\* C10 as claimed: the views are computed only after every task completed,
\* no task is retried, the batch completes if every fetch returns, and when
\* one fetch never returns the batch never ends but the other tasks complete
C10_OthersCompleteWhenOneHangs ==
    /\ C10_OnlyAfterAll
    /\ C10_NeverRetried
    /\ C10_Advances
    /\ C10_Completes
    /\ C10_NoPartialResult
    /\ [](Quiescent /\ Cardinality(HungSubmitted) = 1 => OthersCollected)

\* C10 amended: as above, but the other tasks are sure to complete only when
\* fewer fetches hang than the pool has workers
C10_OthersCompleteWhenAWorkerIsLeft ==
    /\ C10_OnlyAfterAll
    /\ C10_NeverRetried
    /\ C10_Advances
    /\ C10_Completes
    /\ C10_NoPartialResult
    /\ [](Quiescent /\ HungSubmitted # {} /\ Cardinality(HungSubmitted) < workers
            => OthersCollected)

\* one fetch hangs in a pool of two workers; the other two workloads were
\* collected and main is still in the pool
C10_Witness ==
    /\ pc = "collect"
    /\ Quiescent
    /\ Len(task) = 3
    /\ workers = 2
    /\ Cardinality(HungSubmitted) = 1
    /\ \A i \in HungSubmitted : task[i].state = "running"
    /\ OthersCollected

----------------------------------------------------------------------------
(* Vocabulary of the claims about the two parsers *)

\* an optional minus sign followed by at least one digit
IsIntegerText(s) ==
    LET d == IF s # <<>> /\ Head(s) = "-" THEN Tail(s) ELSE s
    IN  d # <<>> /\ \A i \in 1..Len(d) : d[i] \in Digits

IntegerOf(s) == IF Head(s) = "-" THEN 0 - DecVal(Tail(s)) ELSE DecVal(s)

AllDigits(s) == s # <<>> /\ \A i \in 1..Len(s) : s[i] \in Digits

\* the token without its last character, cut at the first decimal point
NumericPortion(s) ==
    LET body == SubSeq(s, 1, Len(s) - 1)
        dots == {i \in 1..Len(body) : body[i] = "."}
    IN  IF dots = {} THEN body
        ELSE SubSeq(body, 1, (CHOOSE i \in dots : \A j \in dots : i <= j) - 1)

\* the conversion table of the size normaliser
Converted(n, unit) ==
    CASE unit \in {"K", "k"} -> n \div 1024
      [] unit \in {"M", "m"} -> n
      [] unit \in {"G", "g"} -> n * 1024
      [] unit \in {"T", "t"} -> n * 1024 * 1024
      [] OTHER -> n

\* C7: an all-digit token n yields n; a token ending in a non-digit whose
\* numeric portion (fraction dropped) is an integer n yields n converted by
\* its unit letter (K: floor(n/1024), M: n, G: n*1024, T: n*1024*1024, any
\* other letter: n); the empty token and every token whose numeric portion
\* is not an integer yield None.
C7_NormalizeTable ==
    pc = "returned" =>
        /\ size_str = <<>> => size_mb = None
        /\ AllDigits(size_str) => size_mb = Some(DecVal(size_str))
        /\ (size_str # <<>> /\ size_str[Len(size_str)] \notin Digits) =>
              IF IsIntegerText(NumericPortion(size_str))
              THEN size_mb = Some(Converted(IntegerOf(NumericPortion(size_str)),
                                            size_str[Len(size_str)]))
              ELSE size_mb = None
        /\ (size_str # <<>> /\ size_str[Len(size_str)] \in Digits
                /\ ~IsIntegerText(size_str)) => size_mb = None

\* "1.9g" has been normalised to 1024: fraction dropped, lower-case unit
C7_Witness ==
    /\ pc = "returned"
    /\ size_str = <<"1", ".", "9", "g">>
    /\ size_mb = Some(1024)

\* the attributes of a disk specification: the comma-separated fields after
\* the volume
RECURSIVE Fields(_)
Fields(s) == IF ~Contains(s, ",") THEN <<s>>
             ELSE <<SplitHead(s, ",")>> \o Fields(SplitTail(s, ","))

HasSizeAttribute(spec) ==
    /\ Contains(spec, ":")
    /\ LET f == Fields(SplitTail(spec, ":"))
       IN  \E i \in 2..Len(f) : StartsWith(f[i], SizeMarker)

\* C3 as claimed: no record for a spec without ':' nor for a spec without a
\* size attribute (such as "p:v,nosize=1")
C3_NullWithoutSizeAttribute ==
    pc = "returned" =>
        ((~Contains(diskspec, ":") \/ ~HasSizeAttribute(diskspec)) => info = None)

\* C3 amended: no record for a spec without ':' nor for a spec in which the
\* text "size=" occurs nowhere
C3_NullWithoutSizeMarker ==
    pc = "returned" =>
        ((~Contains(diskspec, ":") \/ ~ContainsSub(diskspec, SizeMarker)) => info = None)

\* a spec with ':' and no "size=" was rejected, and one without ':' but with
\* a size was rejected too
C3_Witness ==
    /\ pc = "returned"
    /\ info = None
    /\ diskspec \in {<<"p", ":", "v", ",", "d", "=", "1">>,
                      <<"p", "v", ",", "s", "i", "z", "e", "=", "1", "G">>}

\* the storage row built from the status fetched last
LastStorageRow == storage_rows[Len(storage_rows)]

\* C8 as claimed: MiB figures are the byte figures integer-divided by
\* 1048576, used_% is used*100/total (0 when total is 0) and available_% is
\* 100 - used_% in every row, rows with total 0 included (percentages in
\* hundredths)
C8_PercentagesSumTo100 ==
    (pc = "list_storages" /\ st_status # None) =>
        LET r == LastStorageRow
        IN  /\ r.total_MB = st_status.total \div 1048576
            /\ r.used_MB = st_status.used \div 1048576
            /\ r.available_MB = st_status.avail \div 1048576
            /\ r.used_pct = IF r.total_MB = 0 THEN 0
                             ELSE RoundDiv(r.used_MB * 10000, r.total_MB)
            /\ r.available_pct = 10000 - r.used_pct

\* C8 amended: as above, but available_% is 100 - used_% only in the rows
\* with total > 0, and 0 in the rows where total is 0
C8_PercentagesOfNonEmptyPools ==
    (pc = "list_storages" /\ st_status # None) =>
        LET r == LastStorageRow
        IN  /\ r.total_MB = st_status.total \div 1048576
            /\ r.used_MB = st_status.used \div 1048576
            /\ r.available_MB = st_status.avail \div 1048576
            /\ r.used_pct = IF r.total_MB = 0 THEN 0
                             ELSE RoundDiv(r.used_MB * 10000, r.total_MB)
            /\ r.available_pct = IF r.total_MB = 0 THEN 0 ELSE 10000 - r.used_pct

\* a pool of 2 MiB (and some bytes) with 1 MiB used gave 50.00 / 50.00, and a
\* pool smaller than 1 MiB gave 0.00 / 0.00
C8_Witness ==
    /\ pc = "list_storages"
    /\ Len(storage_rows) = 2
    /\ storage_rows[1].total_MB = 2 /\ storage_rows[1].used_pct = 5000
    /\ storage_rows[1].available_pct = 5000
    /\ st_status # None /\ st_status.total = 1048575
    /\ storage_rows[2].total_MB = 0 /\ storage_rows[2].available_pct = 0

\* C5: every record the parser returns has size_mb >= 0
C5_SizeNonNegative ==
    (pc = "returned" /\ info # None) => info.size_mb >= 0

\* C6: every record the parser returns has a non-empty storage and a
\* non-empty volume
C6_NonEmptyIdentifiers ==
    (pc = "returned" /\ info # None) => (info.storage # <<>> /\ info.vmdisk # <<>>)

----------------------------------------------------------------------------
(* Claims about the merged collection and the views *)

RECURSIVE ResultsInOrder(_)
\* the rows the tasks returned, concatenated in submission order
ResultsInOrder(ts) ==
    IF ts = <<>> THEN <<>> ELSE Head(ts).result \o ResultsInOrder(Tail(ts))

\* the workload ids of the run are pairwise distinct
DistinctIds ==
    \A i, j \in 1..Len(vm_entries) :
        i # j => vm_entries[i].vmid # vm_entries[j].vmid

\* what the selected view prints for a merged collection rs
ViewLines(a, rs) ==
    IF a.vm_per_storage
    THEN Render(VmStorageHeaders, vm_per_storage(rs), a.output, a.no_header)
    ELSE IF a.total_per_vm
    THEN Render(VmHeaders, total_per_vm(rs), a.output, a.no_header)
    ELSE IF a.total_per_node
    THEN Render(NodeHeaders, total_per_node(ClusterName, rs), a.output, a.no_header)
    ELSE Render(DiskHeaders, sorted_rows(rs), a.output, a.no_header)

\* C11: with pairwise distinct workload ids, whatever order the tasks were
\* run and collected in, each of the four views has the rows, in the order,
\* it has for the results taken in submission order, and so has the output
C11_OrderIndependence ==
    DistinctIds =>
        /\ pc = "views" =>
              /\ sorted_rows(rows) = sorted_rows(ResultsInOrder(task))
              /\ total_per_vm(rows) = total_per_vm(ResultsInOrder(task))
              /\ total_per_node(ClusterName, rows)
                    = total_per_node(ClusterName, ResultsInOrder(task))
              /\ vm_per_storage(rows) = vm_per_storage(ResultsInOrder(task))
        /\ (pc = "exited" /\ vm_entries # <<>>) =>
              stdout = ViewLines(args, ResultsInOrder(task))

\* two workloads with distinct ids were collected in the reverse of their
\* submission order and a view of several rows has been printed
C11_Witness ==
    /\ pc = "exited"
    /\ DistinctIds
    /\ args.total_per_vm /\ ~args.vm_per_storage
    /\ rows # ResultsInOrder(task)
    /\ Len(total_per_vm(rows)) >= 2
    /\ Cardinality(LinesOf("row")) >= 2

\* the entry is a candidate disk field as the filtering rules state them
StatedCandidate(vtype, e) ==
    IF vtype = "qemu"
    THEN /\ \E prefix \in {<<"s", "c", "s", "i">>, <<"i", "d", "e">>, <<"v", "i", "r", "t", "i", "o">>} :
              Len(e.key) >= Len(prefix) /\ SubSeq(e.key, 1, Len(prefix)) = prefix
         /\ ~\E k \in 1..Len(e.value) :
              k + 10 <= Len(e.value) /\ SubSeq(e.value, k, k + 10) = <<"m", "e", "d", "i", "a", "=", "c", "d", "r", "o", "m">>
    ELSE IF vtype = "lxc"
    THEN \/ e.key = <<"r", "o", "o", "t", "f", "s">>
         \/ Len(e.key) >= 2 /\ SubSeq(e.key, 1, 2) = <<"m", "p">>
    ELSE FALSE

\* the record the parser gives for entry e of the workload vm, or None
RecordOfEntry(vm, e) ==
    extract_disk_info(ClusterName, vm.node, vm.vmid, vm.vmname, e.key, e.value)

\* the entries of cfg that are stated candidates and whose value parses
KeptEntries(vm, cfg) ==
    SelectSeq(cfg, LAMBDA e : StatedCandidate(vm.type, e) /\ RecordOfEntry(vm, e) # None)

\* C12: the result of fetch_vm_disks is, in configuration order, one record
\* for each entry that is a candidate for the workload's kind (qemu: key
\* prefixed scsi, ide or virtio and no media=cdrom in the value; lxc: key
\* rootfs or prefixed mp) and whose value parses, and nothing else; for any
\* other kind it is empty and run_pvesh is not called; nothing is raised and
\* nothing is written to stderr for an entry that does not parse
C12_CollectorFiltering ==
    pc = "returned" /\ task # <<>> =>
        LET vm   == task[1].vm
            kept == KeptEntries(vm, task[1].response.cfg)
        IN  /\ Len(task[1].result) = Len(kept)
            /\ \A k \in 1..Len(kept) : task[1].result[k] = RecordOfEntry(vm, kept[k])
            /\ vm.type \notin {"qemu", "lxc"} =>
                  task[1].result = <<>> /\ task[1].response.kind = "not called"
            /\ ~task[1].raised
            /\ stderr = <<>>

\* a qemu configuration of a disk that is kept and a cdrom that is dropped
C12_Witness ==
    /\ pc = "returned" /\ task # <<>>
    /\ task[1].vm.type = "qemu"
    /\ Len(task[1].response.cfg) = 2
    /\ Len(task[1].result) = 1
    /\ \E e \in Range(task[1].response.cfg) :
         e.key = <<"i", "d", "e", "2">> /\ e.value = <<"p", ":", "c", ",", "m", "e", "d", "i", "a", "=", "c", "d", "r", "o", "m", ",", "s", "i", "z", "e", "=", "1", "G">>

\* the data rows of stdout, in the order printed
PrintedRows ==
    IF args.output = "json" THEN stdout[1].rows
    ELSE LET idx == SetToSeq(LinesOf("row"))
         IN  [k \in 1..Len(idx) |-> stdout[idx[k]].row]

\* main has printed the per-disk view of a non-empty inventory
PerDiskPrinted ==
    /\ pc = "exited" /\ vm_entries # <<>>
    /\ ~args.vm_per_storage /\ ~args.total_per_vm /\ ~args.total_per_node

\* the two sequences hold the same elements the same number of times
SameMultiset(f, g) ==
    /\ Len(f) = Len(g)
    /\ \A x \in Range(f) \cup Range(g) : Count(f, x) = Count(g, x)

\* r1 strictly before r2 by (node, workload id as an integer, storage, volume)
DiskBefore(r1, r2) ==
    \/ StrLess(r1.node, r2.node)
    \/ /\ r1.node = r2.node
       /\ \/ IntegerOf(r1.vmid) < IntegerOf(r2.vmid)
          \/ /\ IntegerOf(r1.vmid) = IntegerOf(r2.vmid)
             /\ \/ StrLess(r1.storage, r2.storage)
                \/ r1.storage = r2.storage /\ StrLess(r1.vmdisk, r2.vmdisk)

\* C13: the per-disk view holds exactly the records of the merged collection,
\* each as often, in ascending order of (node, workload id as an integer,
\* storage, volume); on one node the rows of id "9" precede those of id "10"
C13_PerDiskSorted ==
    PerDiskPrinted =>
        /\ SameMultiset(PrintedRows, ResultsInOrder(task))
        /\ \A k \in 1..(Len(PrintedRows) - 1) :
              ~DiskBefore(PrintedRows[k + 1], PrintedRows[k])
        /\ \A k, l \in 1..Len(PrintedRows) :
              /\ PrintedRows[k].node = PrintedRows[l].node
              /\ PrintedRows[k].vmid = <<"9">>
              /\ PrintedRows[l].vmid = <<"1", "0">>
              => k < l

\* the per-disk view was printed with rows of ids "9" and "10" of one node
C13_Witness ==
    /\ PerDiskPrinted
    /\ \E k, l \in 1..Len(PrintedRows) :
         /\ PrintedRows[k].node = PrintedRows[l].node
         /\ PrintedRows[k].vmid = <<"9">>
         /\ PrintedRows[l].vmid = <<"1", "0">>
    /\ Len(PrintedRows) >= 4

\* main has printed the per-VM view of a non-empty inventory
PerVmPrinted ==
    /\ pc = "exited" /\ vm_entries # <<>>
    /\ ~args.vm_per_storage /\ args.total_per_vm

\* the first record of the merged collection with workload id v
FirstRecordOf(v) ==
    rows[CHOOSE i \in 1..Len(rows) :
            rows[i].vmid = v /\ \A j \in 1..(i - 1) : rows[j].vmid # v]

\* C14: the per-VM view has one row for each workload id of the merged
\* collection and no other; the row's total is the sum of the sizes of all
\* records of that id, on whatever node; its cluster, node and name are those
\* of the first record of that id; the rows ascend by (node, id as an integer)
C14_PerVmView ==
    PerVmPrinted =>
        /\ {PrintedRows[k].vmid : k \in 1..Len(PrintedRows)}
              = {rows[i].vmid : i \in 1..Len(rows)}
        /\ \A k, l \in 1..Len(PrintedRows) :
              PrintedRows[k].vmid = PrintedRows[l].vmid => k = l
        /\ \A k \in 1..Len(PrintedRows) :
              LET v == PrintedRows[k]
              IN  /\ v.total_size_MB
                        = SumSizes(SelectSeq(rows, LAMBDA r : r.vmid = v.vmid))
                  /\ v.cluster = FirstRecordOf(v.vmid).cluster
                  /\ v.node = FirstRecordOf(v.vmid).node
                  /\ v.vmname = FirstRecordOf(v.vmid).vmname
        /\ \A k \in 1..(Len(PrintedRows) - 1) :
              LET v == PrintedRows[k]
                  w == PrintedRows[k + 1]
              IN  \/ StrLess(v.node, w.node)
                  \/ v.node = w.node /\ IntegerOf(v.vmid) <= IntegerOf(w.vmid)

\* the per-VM view was printed for a collection in which id "9" has records
\* on two nodes, the first of them on node b, and another id has records too
C14_Witness ==
    /\ PerVmPrinted
    /\ Len(PrintedRows) >= 2
    /\ \E i, j \in 1..Len(rows) :
         /\ rows[i].vmid = <<"9">> /\ rows[j].vmid = <<"9">>
         /\ rows[i].node # rows[j].node
    /\ FirstRecordOf(<<"9">>).node = <<"b">>
====
